---- MODULE Spec2Model ----
(***************************************************************************)
(* PortfolioApp (src/unnamed/part_001): the page controller of a one-page  *)
(* portfolio site.  The state is the part of the DOM the controller reads  *)
(* and writes; each action is one browser event together with every        *)
(* listener the controller has bound to it.                                *)
(*                                                                         *)
(* Strings the code takes apart (href attributes, element ids) are         *)
(* sequences of one-character strings, so that substring(1) is Tail.       *)
(* An attribute is <<>> when the element does not carry it and <<v>> when  *)
(* it carries the value v.  Strings the code only copies or prefixes are   *)
(* TLA+ strings.                                                           *)
(***************************************************************************)
EXTENDS Integers, Sequences, FiniteSets, TLC

(***************************************************************************)
(* Bounds of the model.                                                    *)
(***************************************************************************)
\* number of .certification-card elements of the page checked by Spec
NumCards == 8
\* contact-form submissions that may be awaiting the endpoint at once
MaxInFlight == 2
\* sections and nav links of the pages enumerated by SpecNav
MaxSections == 2
MaxLinks == 2
\* looked-up elements that may be missing from a page of SpecMissing
MaxAbsent == 2

(***************************************************************************)
(* The page: fixed while the controller runs, chosen by Init.              *)
(***************************************************************************)
VARIABLES
  absent,              \* names of the looked-up elements the markup lacks
  sections,            \* this.sections: [id, offsetTop] in document order
  navLinksArray,       \* this.navLinksArray: href attribute of each '.nav-links a'
  anchorLinks,         \* href of every other a[href^="#"] of the page
  timelineItems,       \* page top of each .timeline-item
  certificationCards   \* page top of each .certification-card, by index from 0

(***************************************************************************)
(* What the controller changes.                                            *)
(***************************************************************************)
VARIABLES
  scrollY,             \* window.scrollY at the last scroll event handled
  scrollRequest,       \* <<top>> of the window.scrollTo request not yet settled, or <<>>
  headerScrolled,      \* header.classList has 'scrolled'
  navLinksStyle,       \* inline style of the .nav-links panel
  activeLinks,         \* positions in navLinksArray whose class list has 'active'
  timelineVisible,     \* per timeline item: class list has 'visible'
  cardStyle,           \* per certification card: inline opacity and transform
  modalHidden,         \* #certificateModal class list has 'hidden'
  bodyOverflow,        \* document.body.style.overflow
  certificateImage,    \* [src, alt] of #certificateImage
  certificateTitle,    \* textContent of #certificateTitle
  certificateIssuer,   \* textContent of #certificateIssuer
  formFields,          \* what the contact form's fields hold
  inFlight,            \* the await each unfinished submit listener is suspended at
  alertDialog,         \* <<message>> while an alert() blocks the page, else <<>>
  uncaught             \* a listener threw a TypeError reading a property of null

page == <<absent, sections, navLinksArray, anchorLinks, timelineItems,
          certificationCards>>
scrollVars == <<scrollY, headerScrolled, activeLinks, timelineVisible, cardStyle>>
modalVars == <<modalHidden, bodyOverflow, certificateImage, certificateTitle,
               certificateIssuer>>
formVars == <<formFields, inFlight, alertDialog>>
vars == <<page, scrollVars, scrollRequest, navLinksStyle, modalVars, formVars,
          uncaught>>

(***************************************************************************)
(* Inputs of the events.                                                   *)
(***************************************************************************)
ScrollOffsets == {0, 100, 101}
InnerHeights == {500, 1000}
InnerWidths == {768, 769}
FormValues == {"", "hello"}

\* no alert() is blocking the event loop: listeners run
Running == alertDialog = <<>>

\* reading a property of an element whose lookup returned null throws
NullDeref(elements) == elements \cap absent # {}

(***************************************************************************)
(* Attributes and strings.                                                 *)
(***************************************************************************)
NoAttr == <<>>
Attr(v) == <<v>>

\* getAttribute(name) || '' (lines 193, 199): a missing attribute reads as ''
OrEmpty(attr) == IF attr = NoAttr THEN <<>> ELSE attr[1]

\* String.prototype.substring(1) (line 199)
Substring1(str) == IF str = <<>> THEN <<>> ELSE Tail(str)

\* link.getAttribute('href')?.substring(1) || '' (line 199)
Fragment(href) == IF href = NoAttr THEN <<>> ELSE Substring1(href[1])

\* the a[href^="#"] selector (line 155)
IsInPageAnchor(href) == href # NoAttr /\ href[1] # <<>> /\ href[1][1] = "#"

Max(S) == CHOOSE x \in S : \A y \in S : y <= x
Min(S) == CHOOSE x \in S : \A y \in S : x <= y

(***************************************************************************)
(* Header scroll styling (lines 56-64).                                    *)
(***************************************************************************)
\* the threshold compared with >= instead of >
updateHeaderScroll_AtThreshold(y) ==
  IF "header" \notin absent
    THEN (IF y >= 100 THEN TRUE ELSE FALSE)
    ELSE headerScrolled

updateHeaderScroll(y) ==
  IF "header" \notin absent
    THEN (IF y > 100 THEN TRUE ELSE FALSE)
    ELSE headerScrolled

\* the elements updateHeaderScroll reads a property of: this.header, inside
\* the null check of line 57
updateHeaderScrollUses == IF "header" \notin absent THEN {"header"} ELSE {}

(***************************************************************************)
(* Reveal of timeline items and certification cards (lines 69-95).         *)
(* getBoundingClientRect().top of an element is its page top minus the     *)
(* scroll offset; itemTop < windowHeight * 0.8 is compared in tenths.      *)
(***************************************************************************)
InRevealZone(pageTop, y, windowHeight) == 10 * (pageTop - y) < 8 * windowHeight

\* the class toggled with the reveal zone instead of only added
animateTimelineItems_Toggles(y, windowHeight) ==
  [i \in DOMAIN timelineItems |-> InRevealZone(timelineItems[i], y, windowHeight)]

animateTimelineItems(y, windowHeight) ==
  [i \in DOMAIN timelineItems |->
     IF InRevealZone(timelineItems[i], y, windowHeight)
       THEN TRUE
       ELSE timelineVisible[i]]

HiddenCard == [opacity |-> "0", transform |-> "translateY(20px)"]
RevealedCard == [opacity |-> "1", transform |-> "translateY(0)"]

animateCertificationCards(y, windowHeight) ==
  [i \in DOMAIN certificationCards |->
     IF InRevealZone(certificationCards[i], y, windowHeight)
       THEN RevealedCard
       ELSE cardStyle[i]]

(***************************************************************************)
(* Active-link highlighting (lines 187-204).                               *)
(***************************************************************************)
\* the forEach over this.sections: a later qualifying section overwrites
RECURSIVE CurrentSectionFrom(_, _, _)
CurrentSectionFrom(i, current, y) ==
  IF i > Len(sections) THEN current
  ELSE CurrentSectionFrom(
         i + 1,
         IF y >= sections[i].offsetTop - 200 THEN OrEmpty(sections[i].id) ELSE current,
         y)

CurrentSection(y) == CurrentSectionFrom(1, <<>>, y)

\* the marker added without first being removed from every link
updateActiveNavLink_NeverClears(y) ==
  activeLinks \cup
    {l \in DOMAIN navLinksArray : Fragment(navLinksArray[l]) = CurrentSection(y)}

\* a section counted as reached 300px, not 200px, above its top
updateActiveNavLink_Margin300(y) ==
  {l \in DOMAIN navLinksArray : Fragment(navLinksArray[l]) = CurrentSection(y + 100)}

updateActiveNavLink(y) ==
  {l \in DOMAIN navLinksArray : Fragment(navLinksArray[l]) = CurrentSection(y)}

(***************************************************************************)
(* The two window 'scroll' listeners, in the order init binds them         *)
(* (lines 46-50, 179-181).                                                 *)
(***************************************************************************)
OnScroll(y, windowHeight) ==
  /\ scrollY' = y
  /\ headerScrolled' = updateHeaderScroll(y)
  /\ timelineVisible' = animateTimelineItems(y, windowHeight)
  /\ cardStyle' = animateCertificationCards(y, windowHeight)
  /\ activeLinks' = updateActiveNavLink(y)
  /\ uncaught' = (uncaught \/ NullDeref(updateHeaderScrollUses))

Scroll(y, windowHeight) ==
  /\ Running
  /\ OnScroll(y, windowHeight)
  /\ UNCHANGED <<page, scrollRequest, navLinksStyle, modalVars, formVars>>

\* the scroll window.scrollTo asked for arrives: the browser clamps the top at 0
SmoothScrollSettle(windowHeight) ==
  /\ Running
  /\ scrollRequest # <<>>
  /\ OnScroll(IF scrollRequest[1] < 0 THEN 0 ELSE scrollRequest[1], windowHeight)
  /\ scrollRequest' = <<>>
  /\ UNCHANGED <<page, navLinksStyle, modalVars, formVars>>

(***************************************************************************)
(* Mobile menu (lines 100-149).                                            *)
(***************************************************************************)
NoInlineStyle ==
  [display |-> "", flexDirection |-> "", position |-> "", top |-> "", left |-> "",
   width |-> "", backgroundColor |-> "", backdropFilter |-> "", padding |-> "",
   gap |-> "", borderTop |-> ""]

applyMobileMenuStyles(style) ==
  IF "navLinks" \in absent THEN style
  ELSE [style EXCEPT
          !.flexDirection = "column",
          !.position = "absolute",
          !.top = "100%",
          !.left = "0",
          !.width = "100%",
          !.backgroundColor = "rgba(15, 15, 30, 0.95)",
          !.backdropFilter = "blur(10px)",
          !.padding = "30px 20px",
          !.gap = "25px",
          !.borderTop = "1px solid rgba(255, 255, 255, 0.1)"]

toggleMobileMenu(style) ==
  IF "navLinks" \in absent THEN style
  ELSE LET isVisible == style.display = "flex"
           toggled == [style EXCEPT !.display = IF isVisible THEN "none" ELSE "flex"]
       IN  IF ~isVisible THEN applyMobileMenuStyles(toggled) ELSE toggled

\* toggleMobileMenu and applyMobileMenuStyles return before touching a
\* missing panel (lines 121, 135)
toggleMobileMenuUses == IF "navLinks" \in absent THEN {} ELSE {"navLinks"}

\* the listeners bound as soon as the button exists, whether or not the panel does
MenuBound_ButtonOnly == "mobileMenuBtn" \notin absent

\* setupMobileMenu binds its listeners only when both elements exist (line 101)
MenuBound == "mobileMenuBtn" \notin absent /\ "navLinks" \notin absent

MobileMenuBtnClick ==
  /\ Running
  /\ "mobileMenuBtn" \notin absent
  /\ navLinksStyle' = IF MenuBound THEN toggleMobileMenu(navLinksStyle) ELSE navLinksStyle
  /\ uncaught' = (uncaught \/ (MenuBound /\ NullDeref(toggleMobileMenuUses)))
  /\ UNCHANGED <<page, scrollVars, scrollRequest, modalVars, formVars>>

\* the breakpoint compared with < instead of <=
closeMenuOnLink_BelowBreakpoint(style, innerWidth) ==
  IF MenuBound /\ innerWidth < 768
    THEN [style EXCEPT !.display = "none"]
    ELSE style

\* the nav-link listener of setupMobileMenu (lines 108-112)
closeMenuOnLink(style, innerWidth) ==
  IF MenuBound /\ innerWidth <= 768
    THEN [style EXCEPT !.display = "none"]
    ELSE style

\* this.navLinks!.style of line 110, in a listener bound under the check of line 101
closeMenuOnLinkUses(innerWidth) ==
  IF MenuBound /\ innerWidth <= 768 THEN {"navLinks"} ELSE {}

(***************************************************************************)
(* Smooth scrolling (lines 154-173).                                       *)
(***************************************************************************)
\* document.querySelector('#' + id): the first element carrying that id
querySelector(targetId) ==
  LET hits == {i \in DOMAIN sections : sections[i].id = Attr(Substring1(targetId))}
  IN  IF hits = {} THEN <<>> ELSE <<sections[Min(hits)]>>

\* the scroll requested to the element's own top, without the 80px margin
smoothScrollTo_NoMargin(href, request) ==
  LET targetId == OrEmpty(href)
      targetElement == querySelector(targetId)
  IN  IF targetId = <<>> \/ targetId = <<"#">> THEN request
      ELSE IF targetElement # <<>>
             THEN <<targetElement[1].offsetTop>>
             ELSE request

\* the click listener of an a[href^="#"]: the scrollTo request it leaves
smoothScrollTo(href, request) ==
  LET targetId == OrEmpty(href)
      targetElement == querySelector(targetId)
  IN  IF targetId = <<>> \/ targetId = <<"#">> THEN request
      ELSE IF targetElement # <<>>
             THEN <<targetElement[1].offsetTop - 80>>
             ELSE request

\* a click on a '.nav-links a': the menu listener, then the anchor listener
NavLinkClick(l, innerWidth) ==
  /\ Running
  /\ navLinksStyle' = closeMenuOnLink(navLinksStyle, innerWidth)
  /\ uncaught' = (uncaught \/ NullDeref(closeMenuOnLinkUses(innerWidth)))
  /\ scrollRequest' = IF IsInPageAnchor(navLinksArray[l])
                        THEN smoothScrollTo(navLinksArray[l], scrollRequest)
                        ELSE scrollRequest
  /\ UNCHANGED <<page, scrollVars, modalVars, formVars>>

\* a click on any other a[href^="#"]
AnchorClick(a) ==
  /\ Running
  /\ scrollRequest' = smoothScrollTo(anchorLinks[a], scrollRequest)
  /\ UNCHANGED <<page, scrollVars, navLinksStyle, modalVars, formVars, uncaught>>

(***************************************************************************)
(* Certificate modal (lines 227-299).                                      *)
(***************************************************************************)
certificateMap ==
  [index \in 0..6 |->
     CASE index = 0 -> [image |-> "images/AI ML engineer 01.jpg",
                        title |-> "AI/ML Engineer - Stage 1",
                        issuer |-> "Sri Lanka Institute of Information Technology (SLIIT)"]
       [] index = 1 -> [image |-> "images/AI ML engineer 02.jpg",
                        title |-> "AI/ML Engineer - Stage 2",
                        issuer |-> "Sri Lanka Institute of Information Technology (SLIIT)"]
       [] index = 2 -> [image |-> "images/Python Programing.png",
                        title |-> "Programming in Python",
                        issuer |-> "University of Moratuwa"]
       [] index = 3 -> [image |-> "images/Front End Development.png",
                        title |-> "Front-End Web Development",
                        issuer |-> "University of Moratuwa"]
       [] index = 4 -> [image |-> "images/Machine learning.png",
                        title |-> "Machine Learning Using Python",
                        issuer |-> "Simplilearn"]
       [] index = 5 -> [image |-> "images/Full Stack Java.png",
                        title |-> "Full Stack Java Development",
                        issuer |-> "Simplilearn"]
       [] index = 6 -> [image |-> "images/Flutter.jpg",
                        title |-> "Mobile App Development With Flutter",
                        issuer |-> "Alison"]]

\* certificateMap[index] !== null && certificateMap[index] (line 263)
HasCertificate(index) == index \in DOMAIN certificateMap

\* the issuer shown without the template's prefix
IssuerText_Bare(cert) == cert.issuer

\* the template literal of line 268
IssuerText(cert) == "Issued by " \o cert.issuer

\* the elements the card listener reads a property of: each inside its own
\* null check (lines 263-269)
CardClickUses(index) ==
  IF "modal" \notin absent /\ HasCertificate(index)
    THEN {"modal"} \cup
         ({"certificateImage", "certificateTitle", "certificateIssuer"} \ absent)
    ELSE {}

\* the card listener without the line that suspends page scrolling
CardClick_NoScrollLock(index) ==
  /\ Running
  /\ index \in DOMAIN certificationCards
  /\ IF "modal" \notin absent /\ HasCertificate(index)
       THEN LET cert == certificateMap[index]
            IN  /\ certificateImage' =
                     IF "certificateImage" \notin absent
                       THEN [src |-> cert.image, alt |-> cert.title]
                       ELSE certificateImage
                /\ certificateTitle' =
                     IF "certificateTitle" \notin absent
                       THEN cert.title
                       ELSE certificateTitle
                /\ certificateIssuer' =
                     IF "certificateIssuer" \notin absent
                       THEN IssuerText(cert)
                       ELSE certificateIssuer
                /\ modalHidden' = FALSE
                /\ UNCHANGED bodyOverflow
       ELSE UNCHANGED modalVars
  /\ uncaught' = (uncaught \/ NullDeref(CardClickUses(index)))
  /\ UNCHANGED <<page, scrollVars, scrollRequest, navLinksStyle, formVars>>

\* the click listener of the card at position index (lines 262-272)
CardClick(index) ==
  /\ Running
  /\ index \in DOMAIN certificationCards
  /\ IF "modal" \notin absent /\ HasCertificate(index)
       THEN LET cert == certificateMap[index]
            IN  /\ certificateImage' =
                     IF "certificateImage" \notin absent
                       THEN [src |-> cert.image, alt |-> cert.title]
                       ELSE certificateImage
                /\ certificateTitle' =
                     IF "certificateTitle" \notin absent
                       THEN cert.title
                       ELSE certificateTitle
                /\ certificateIssuer' =
                     IF "certificateIssuer" \notin absent
                       THEN IssuerText(cert)
                       ELSE certificateIssuer
                /\ modalHidden' = FALSE
                /\ bodyOverflow' = "hidden"
       ELSE UNCHANGED modalVars
  /\ uncaught' = (uncaught \/ NullDeref(CardClickUses(index)))
  /\ UNCHANGED <<page, scrollVars, scrollRequest, navLinksStyle, formVars>>

\* closeModal that hides the modal but leaves page scrolling suspended
closeModal_KeepsScrollLock ==
  IF "modal" \notin absent
    THEN /\ modalHidden' = TRUE
         /\ UNCHANGED <<bodyOverflow, certificateImage, certificateTitle,
                        certificateIssuer>>
    ELSE UNCHANGED modalVars

\* closeModal (lines 276-281)
closeModal ==
  IF "modal" \notin absent
    THEN /\ modalHidden' = TRUE
         /\ bodyOverflow' = "auto"
         /\ UNCHANGED <<certificateImage, certificateTitle, certificateIssuer>>
    ELSE UNCHANGED modalVars

\* modal.classList inside the null check of line 277
closeModalUses == IF "modal" \notin absent THEN {"modal"} ELSE {}

ModalCloseClick ==
  /\ Running
  /\ "modalClose" \notin absent
  /\ closeModal
  /\ uncaught' = (uncaught \/ NullDeref(closeModalUses))
  /\ UNCHANGED <<page, scrollVars, scrollRequest, navLinksStyle, formVars>>

ModalOverlayClick ==
  /\ Running
  /\ "modalOverlay" \notin absent
  /\ closeModal
  /\ uncaught' = (uncaught \/ NullDeref(closeModalUses))
  /\ UNCHANGED <<page, scrollVars, scrollRequest, navLinksStyle, formVars>>

Keys == {"Escape", "Enter"}

\* modal.classList.contains, read only after `modal &&` (line 295), and
\* closeModal when the listener calls it
KeyDownUses(key) ==
  IF key = "Escape" /\ "modal" \notin absent
    THEN {"modal"} \cup (IF ~modalHidden THEN closeModalUses ELSE {})
    ELSE {}

\* the document 'keydown' listener (lines 294-298)
KeyDown(key) ==
  /\ Running
  /\ IF key = "Escape" /\ "modal" \notin absent /\ ~modalHidden
       THEN closeModal
       ELSE UNCHANGED modalVars
  /\ uncaught' = (uncaught \/ NullDeref(KeyDownUses(key)))
  /\ UNCHANGED <<page, scrollVars, scrollRequest, navLinksStyle, formVars>>

(***************************************************************************)
(* Contact form (lines 334-359).  The submit listener suspends at each     *)
(* await: first on fetch, then on response.json().  alert() is modal: no   *)
(* listener runs until the user dismisses it, and the listener that called *)
(* it then runs on.                                                        *)
(***************************************************************************)
\* what a rejected promise carries: an Error with its message, or another value
Thrown == {[isError |-> TRUE, message |-> "Failed to fetch"],
           [isError |-> FALSE, message |-> ""]}

SuccessAlert == "Message sent successfully! I will get back to you soon."
FailureAlert == "Error sending message. Please try again."

\* line 356
CaughtAlert(error) ==
  "Error: " \o (IF error.isError THEN error.message ELSE "Unknown error")

\* lines 349-354: the alert the listener raises for the parsed response
ResponseAlert(success) == IF success THEN SuccessAlert ELSE FailureAlert

Remove(seq, k) == [j \in 1..(Len(seq) - 1) |-> IF j < k THEN seq[j] ELSE seq[j + 1]]

\* the user edits the form
Input(value) ==
  /\ Running
  /\ "contactForm" \notin absent
  /\ formFields' = value
  /\ UNCHANGED <<page, scrollVars, scrollRequest, navLinksStyle, modalVars,
                 inFlight, alertDialog, uncaught>>

\* the 'submit' listener up to its first await (lines 338-345): one fetch
Submit ==
  /\ Running
  /\ "contactForm" \notin absent
  /\ Len(inFlight) < MaxInFlight
  /\ inFlight' = Append(inFlight, "fetch")
  /\ UNCHANGED <<page, scrollVars, scrollRequest, navLinksStyle, modalVars,
                 formFields, alertDialog, uncaught>>

\* fetch resolved with a response: the listener awaits response.json() (line 347)
FetchResolved(k) ==
  /\ Running
  /\ k \in DOMAIN inFlight
  /\ inFlight[k] = "fetch"
  /\ inFlight' = [inFlight EXCEPT ![k] = "json"]
  /\ UNCHANGED <<page, scrollVars, scrollRequest, navLinksStyle, modalVars,
                 formFields, alertDialog, uncaught>>

\* a catch clause that reports the failure and leaves the request to be retried
Rejected_Retries(k, error) ==
  /\ Running
  /\ k \in DOMAIN inFlight
  /\ inFlight' = [inFlight EXCEPT ![k] = "fetch"]
  /\ alertDialog' = <<CaughtAlert(error)>>
  /\ UNCHANGED <<page, scrollVars, scrollRequest, navLinksStyle, modalVars,
                 formFields, uncaught>>

\* either await rejected: the catch clause (lines 355-357)
Rejected(k, error) ==
  /\ Running
  /\ k \in DOMAIN inFlight
  /\ inFlight' = Remove(inFlight, k)
  /\ alertDialog' = <<CaughtAlert(error)>>
  /\ UNCHANGED <<page, scrollVars, scrollRequest, navLinksStyle, modalVars,
                 formFields, uncaught>>

\* response.json() resolved with data: the alert of line 350 or 353
JsonResolved(k, success) ==
  /\ Running
  /\ k \in DOMAIN inFlight
  /\ inFlight[k] = "json"
  /\ inFlight' = Remove(inFlight, k)
  /\ alertDialog' = <<ResponseAlert(success)>>
  /\ UNCHANGED <<page, scrollVars, scrollRequest, navLinksStyle, modalVars,
                 formFields, uncaught>>

\* reset() moved out of the success branch: the form is cleared on every outcome
AfterAlert_AlwaysResets(message, fields) == ""

\* what the listener does once its alert() returns: reset() after line 350
AfterAlert(message, fields) == IF message = SuccessAlert THEN "" ELSE fields

\* the user dismisses the alert
DismissAlert ==
  /\ ~Running
  /\ formFields' = AfterAlert(alertDialog[1], formFields)
  /\ alertDialog' = <<>>
  /\ UNCHANGED <<page, scrollVars, scrollRequest, navLinksStyle, modalVars,
                 inFlight, uncaught>>

(***************************************************************************)
(* The state once the constructor has returned (lines 16-40).              *)
(***************************************************************************)
\* setupTimelineAnimations (lines 209-222), at scroll offset 0
InitialTimeline(windowHeight) ==
  [i \in DOMAIN timelineItems |-> InRevealZone(timelineItems[i], 0, windowHeight)]

\* the forEach of setupCertificationCards (lines 247-259), at scroll offset 0
InitialCards(windowHeight) ==
  [i \in DOMAIN certificationCards |->
     IF InRevealZone(certificationCards[i], 0, windowHeight)
       THEN RevealedCard
       ELSE HiddenCard]

\* the elements the setup methods read a property of while binding listeners
\* (lines 101-104, 284-291, 335-338): each only after its null check
initUses ==
  ({"modalClose", "modalOverlay", "contactForm"} \ absent) \cup
  (IF MenuBound THEN {"mobileMenuBtn"} ELSE {})

Constructed ==
  /\ scrollY = 0
  /\ scrollRequest = <<>>
  /\ headerScrolled = FALSE
  /\ navLinksStyle = NoInlineStyle
  /\ activeLinks = {}
  /\ \E windowHeight \in InnerHeights :
       /\ timelineVisible = InitialTimeline(windowHeight)
       /\ cardStyle = InitialCards(windowHeight)
  /\ modalHidden = TRUE
  /\ bodyOverflow = ""
  /\ certificateImage = [src |-> "", alt |-> ""]
  /\ certificateTitle = ""
  /\ certificateIssuer = ""
  /\ formFields = ""
  /\ inFlight = <<>>
  /\ alertDialog = <<>>
  /\ uncaught = NullDeref(initUses)

Id(name) == Attr(<<name>>)
Href(name) == Attr(<<"#", name>>)

\* the page Spec runs on: every looked-up element present
Init ==
  /\ absent = {}
  /\ sections = <<[id |-> Id("a"), offsetTop |-> 0],
                  [id |-> Id("b"), offsetTop |-> 180]>>
  /\ navLinksArray = <<Href("a"), Href("b"), Attr(<<"#">>)>>
  /\ anchorLinks = <<Attr(<<"#">>), Href("b"), Href("z")>>
  /\ timelineItems = <<300, 900>>
  /\ certificationCards = [i \in 0..(NumCards - 1) |-> 900 + 500 * (i \div 4)]
  /\ Constructed

Next ==
  \/ \E y \in ScrollOffsets, h \in InnerHeights : Scroll(y, h)
  \/ \E h \in InnerHeights : SmoothScrollSettle(h)
  \/ MobileMenuBtnClick
  \/ \E l \in DOMAIN navLinksArray, w \in InnerWidths : NavLinkClick(l, w)
  \/ \E a \in DOMAIN anchorLinks : AnchorClick(a)
  \/ \E index \in DOMAIN certificationCards : CardClick(index)
  \/ ModalCloseClick
  \/ ModalOverlayClick
  \/ \E key \in Keys : KeyDown(key)
  \/ \E value \in FormValues : Input(value)
  \/ Submit
  \/ \E k \in DOMAIN inFlight : FetchResolved(k)
  \/ \E k \in DOMAIN inFlight, error \in Thrown : Rejected(k, error)
  \/ \E k \in DOMAIN inFlight, success \in BOOLEAN : JsonResolved(k, success)
  \/ DismissAlert

Spec == Init /\ [][Next]_vars

(***************************************************************************)
(* SpecNav: the navigation listeners on every page of at most MaxSections  *)
(* sections and MaxLinks nav links, a page that has a header, the menu and *)
(* the sections but no timeline, cards, modal or form.  The listeners      *)
(* treat every nav link alike whatever its position, so the pages are      *)
(* enumerated up to the order of their nav links; with nothing to reveal,  *)
(* the window height is not read and one height stands for all.            *)
(***************************************************************************)
SeqsUpTo(n, S) == UNION {[1..k -> S] : k \in 0..n}

SectionIds == {NoAttr, Id("a"), Id("b")}
OffsetTops == {300, 400}
NavHrefs == <<Attr(<<"#">>), Href("a"), Href("b")>>

NonDecreasing(k, m) ==
  {f \in [1..k -> 1..m] : \A i \in 1..(k - 1) : f[i] <= f[i + 1]}

NavLinkLists(n) ==
  UNION {{[i \in 1..k |-> NavHrefs[f[i]]] : f \in NonDecreasing(k, Len(NavHrefs))} :
           k \in 0..n}

ModalAndForm == {"modal", "modalClose", "modalOverlay", "certificateImage",
                 "certificateTitle", "certificateIssuer", "contactForm"}

InitNav ==
  /\ absent = ModalAndForm
  /\ sections \in SeqsUpTo(MaxSections, [id : SectionIds, offsetTop : OffsetTops])
  /\ navLinksArray \in NavLinkLists(MaxLinks)
  /\ anchorLinks = <<Attr(<<"#">>), Href("a")>>
  /\ timelineItems = <<>>
  /\ certificationCards = <<>>
  /\ Constructed

NextNav ==
  \/ \E y \in ScrollOffsets : Scroll(y, Max(InnerHeights))
  \/ SmoothScrollSettle(Max(InnerHeights))
  \/ \E l \in DOMAIN navLinksArray, w \in InnerWidths : NavLinkClick(l, w)
  \/ \E a \in DOMAIN anchorLinks : AnchorClick(a)

SpecNav == InitNav /\ [][NextNav]_vars

(***************************************************************************)
(* SpecMissing: the listeners that touch a looked-up element, on a small   *)
(* page from whose markup at most MaxAbsent of those elements are missing. *)
(* The page has one card, one section and one nav link that names no       *)
(* section, so no scroll is ever requested; submissions are taken one at a *)
(* time (overlapping submissions are Spec's).                              *)
(***************************************************************************)
\* what the constructor and setupCertificationCards look up (lines 17-21,
\* 228-234)
Elements == {"header", "mobileMenuBtn", "navLinks", "modal", "modalClose",
             "modalOverlay", "certificateImage", "certificateTitle",
             "certificateIssuer", "contactForm"}

InitMissing ==
  /\ absent \in {missing \in SUBSET Elements : Cardinality(missing) <= MaxAbsent}
  /\ sections = <<[id |-> Id("a"), offsetTop |-> 0]>>
  /\ navLinksArray = <<Attr(<<"#">>)>>
  /\ anchorLinks = <<>>
  /\ timelineItems = <<>>
  /\ certificationCards = [index \in {0} |-> 0]
  /\ Constructed

NextMissing ==
  \/ \E y \in ScrollOffsets : Scroll(y, Max(InnerHeights))
  \/ MobileMenuBtnClick
  \/ \E l \in DOMAIN navLinksArray, w \in InnerWidths : NavLinkClick(l, w)
  \/ \E index \in DOMAIN certificationCards : CardClick(index)
  \/ ModalCloseClick
  \/ ModalOverlayClick
  \/ \E key \in Keys : KeyDown(key)
  \/ \E value \in FormValues : Input(value)
  \/ inFlight = <<>> /\ Submit
  \/ \E k \in DOMAIN inFlight : FetchResolved(k)
  \/ \E k \in DOMAIN inFlight, error \in Thrown : Rejected(k, error)
  \/ \E k \in DOMAIN inFlight, success \in BOOLEAN : JsonResolved(k, success)
  \/ DismissAlert

SpecMissing == InitMissing /\ [][NextMissing]_vars

(***************************************************************************)
(* SpecSections: the navigation listeners on every layout of at most       *)
(* MaxSections sections whose tops are 100 or 200 apart, that is nearer    *)
(* and farther than the 120 between the scroll-spy margin (200) and the    *)
(* smooth-scroll margin (80); the nav has two links to one section.        *)
(***************************************************************************)
SectionTops == {300, 400, 600}

InitSections ==
  /\ absent = ModalAndForm
  /\ sections \in SeqsUpTo(MaxSections, [id : SectionIds, offsetTop : SectionTops])
  /\ navLinksArray = <<Href("a"), Href("b"), Attr(<<"#">>), Href("a")>>
  /\ anchorLinks = <<Href("b")>>
  /\ timelineItems = <<>>
  /\ certificationCards = <<>>
  /\ Constructed

SpecSections == InitSections /\ [][NextNav]_vars

(***************************************************************************)
(* C1.  From the modal state Open, each of the three close events          *)
(* (close-button click, overlay click, Escape keydown) can be taken, and   *)
(* taken on its own it leaves the modal Closed (hidden marker present)     *)
(* with page scrolling re-enabled (body overflow no longer 'hidden'),      *)
(* whatever events came before.                                            *)
(***************************************************************************)
ModalOpen == ~modalHidden

Closes(event) == event /\ modalHidden' /\ bodyOverflow' # "hidden"

C1_CloseEventsClose ==
  /\ [](ModalOpen /\ Running =>
          /\ ENABLED Closes(ModalCloseClick)
          /\ ENABLED Closes(ModalOverlayClick)
          /\ ENABLED Closes(KeyDown("Escape")))
  /\ [][ModalOpen /\ (ModalCloseClick \/ ModalOverlayClick \/ KeyDown("Escape"))
          => modalHidden' /\ bodyOverflow' # "hidden"]_vars

\* the modal was opened by a card and has been closed again
C1_Witness ==
  /\ modalHidden
  /\ bodyOverflow = "auto"
  /\ certificateTitle # ""

(***************************************************************************)
(* C2.  Clicking the certification card at document-order index i with     *)
(* 0 <= i <= 6 sets the modal's image source, image alt text, title and    *)
(* issuer text from certificate-table entry i and opens the modal;         *)
(* clicking a card with no table entry (i >= 7) leaves the modal closed    *)
(* and its fields and the page-scroll setting unchanged.                   *)
(***************************************************************************)
\* as claimed: every field of the modal is exactly a field of entry i
C2_Original ==
  [][\A index \in DOMAIN certificationCards :
       CardClick(index) =>
         IF index <= 6
           THEN /\ certificateImage'.src = certificateMap[index].image
                /\ certificateImage'.alt = certificateMap[index].title
                /\ certificateTitle' = certificateMap[index].title
                /\ certificateIssuer' = certificateMap[index].issuer
                /\ ~modalHidden'
           ELSE UNCHANGED modalVars]_vars

\* as amended: the issuer text is the entry's issuer after the words "Issued by "
C2_CardClickFillsModal ==
  [][\A index \in DOMAIN certificationCards :
       CardClick(index) =>
         IF index <= 6
           THEN /\ certificateImage'.src = certificateMap[index].image
                /\ certificateImage'.alt = certificateMap[index].title
                /\ certificateTitle' = certificateMap[index].title
                /\ certificateIssuer' = "Issued by " \o certificateMap[index].issuer
                /\ ~modalHidden'
           ELSE UNCHANGED modalVars]_vars

\* the last card with a table entry has been clicked, on a page that also
\* has a card without one
C2_Witness ==
  /\ ModalOpen
  /\ certificateImage.src = "images/Flutter.jpg"
  /\ certificateIssuer = "Issued by Alison"
  /\ \E index \in DOMAIN certificationCards : index >= 7

(***************************************************************************)
(* C3.  For every contact-form submission whose request completes: a       *)
(* response with success = true shows the success notification and the     *)
(* form is cleared; a response with success = false, or a rejected request *)
(* or response parse, shows an error notification and leaves the form      *)
(* fields as they are.  Each completed submission shows exactly one        *)
(* notification, and the notification for an unsuccessful response differs *)
(* from the one for a network or parse failure.                            *)
(***************************************************************************)
C3_SubmissionOutcome ==
  [][/\ \A k \in DOMAIN inFlight :
          /\ JsonResolved(k, TRUE) => alertDialog' = <<SuccessAlert>>
          /\ JsonResolved(k, FALSE) =>
               /\ alertDialog' = <<FailureAlert>>
               /\ formFields' = formFields
          /\ \A error \in Thrown :
               Rejected(k, error) =>
                 /\ Len(alertDialog') = 1
                 /\ alertDialog'[1] \notin {SuccessAlert, FailureAlert}
                 /\ formFields' = formFields
     \* the listener runs on when its alert is dismissed
     /\ DismissAlert =>
          formFields' = IF alertDialog = <<SuccessAlert>> THEN "" ELSE formFields
     \* one notification for each completion, and none without one
     /\ Len(inFlight') < Len(inFlight) =>
          /\ alertDialog = <<>>
          /\ Len(alertDialog') = 1
          /\ Len(inFlight') = Len(inFlight) - 1
     /\ alertDialog' # <<>> /\ alertDialog' # alertDialog =>
          Len(inFlight') = Len(inFlight) - 1]_vars

\* an unsuccessful response is being reported over a form still filled in
C3_Witness ==
  /\ alertDialog = <<FailureAlert>>
  /\ formFields = "hello"

(***************************************************************************)
(* The scroll listeners have just run: a scroll event, or the arrival of   *)
(* a requested scroll.                                                     *)
(***************************************************************************)
ScrollHandled ==
  \/ \E y \in ScrollOffsets, h \in InnerHeights : Scroll(y, h)
  \/ \E h \in InnerHeights : SmoothScrollSettle(h)

\* the href a link carries after its first character: its fragment
LinkFragment(l) == Fragment(navLinksArray[l])

(***************************************************************************)
(* C4.  In every reachable state, under any sequence of scroll and click   *)
(* events and for any nav links and sections of the page, at most one nav  *)
(* link carries the 'active' marker.                                       *)
(***************************************************************************)
\* as claimed
C4_Original == Cardinality(activeLinks) <= 1

DistinctFragments ==
  \A l1, l2 \in DOMAIN navLinksArray : l1 # l2 => LinkFragment(l1) # LinkFragment(l2)

\* as amended: the links carrying the marker all have one fragment, so there
\* is at most one of them on a page whose nav links have distinct fragments
C4_ActiveLinksShareFragment ==
  /\ \A l1, l2 \in activeLinks : LinkFragment(l1) = LinkFragment(l2)
  /\ DistinctFragments => Cardinality(activeLinks) <= 1

\* one of two links to different sections is marked
C4_Witness ==
  /\ Len(navLinksArray) = 2
  /\ DistinctFragments
  /\ Cardinality(activeLinks) = 1
  /\ scrollY > 0

(***************************************************************************)
(* C5.  After the scroll handler has run at scroll offset y, the active    *)
(* nav links are those whose fragment equals the id of the last section    *)
(* in document order whose adjusted top (offsetTop - 200) is <= y, and     *)
(* every other link is inactive; when no section satisfies the condition,  *)
(* no link is active.                                                      *)
(***************************************************************************)
Qualifying(y) == {i \in DOMAIN sections : sections[i].offsetTop - 200 <= y}

LinksTo(section) ==
  {l \in DOMAIN navLinksArray :
     /\ section.id # NoAttr
     /\ navLinksArray[l] # NoAttr
     /\ LinkFragment(l) = section.id[1]}

ClaimedActive(y) ==
  IF Qualifying(y) = {} THEN {} ELSE LinksTo(sections[Max(Qualifying(y))])

C5_ActiveLinkIsLastSection ==
  [][ScrollHandled => activeLinks' = ClaimedActive(scrollY')]_vars

(***************************************************************************)
(* C6.  Reveal is monotonic: a timeline item that carries 'visible', or a  *)
(* certification card set to opacity 1 / translateY(0), stays so after     *)
(* every later event, including scrolls that move its viewport top back to *)
(* or beyond 0.8 x viewport height.                                        *)
(***************************************************************************)
C6_RevealIsMonotonic ==
  [][/\ \A i \in DOMAIN timelineItems : timelineVisible[i] => timelineVisible'[i]
     /\ \A i \in DOMAIN certificationCards :
          cardStyle[i] = RevealedCard => cardStyle'[i] = RevealedCard]_vars

\* a timeline item and a card revealed by an earlier scroll, after a scroll
\* that put them outside the reveal zone of every window height
C6_Witness ==
  /\ \E i \in DOMAIN timelineItems :
       /\ timelineVisible[i]
       /\ \A h \in InnerHeights : ~InRevealZone(timelineItems[i], scrollY, h)
  /\ \E i \in DOMAIN certificationCards :
       /\ cardStyle[i] = RevealedCard
       /\ \A h \in InnerHeights : ~InRevealZone(certificationCards[i], scrollY, h)

(***************************************************************************)
(* C7.  After the scroll handler has run at scroll offset y, the header    *)
(* carries 'scrolled' if and only if y > 100 (at exactly 100 it lacks it), *)
(* whether or not it carried the marker before.                            *)
(***************************************************************************)
C7_HeaderScrolledIffPast100 ==
  [][ScrollHandled => (headerScrolled' <=> scrollY' > 100)]_vars

\* the header has lost the marker at offset exactly 100, a card is revealed
\* only by an earlier scroll past it
C7_Witness ==
  /\ scrollY = 100
  /\ ~headerScrolled
  /\ \E i \in DOMAIN certificationCards : cardStyle[i] = RevealedCard

(***************************************************************************)
(* C8.  Each click on the mobile menu button flips the navigation panel    *)
(* between hidden and the explicit flex layout (the first click shows it,  *)
(* the second hides it, and so on); clicking a nav link while the viewport *)
(* width is <= 768 leaves the panel hidden whatever it was, and clicking   *)
(* one while the width is > 768 leaves the panel's display unchanged.      *)
(***************************************************************************)
FlexLayout(style) ==
  /\ style.display = "flex"
  /\ style.flexDirection = "column"
  /\ style.position = "absolute"
  /\ style.top = "100%"
  /\ style.left = "0"
  /\ style.width = "100%"
  /\ style.backgroundColor = "rgba(15, 15, 30, 0.95)"
  /\ style.backdropFilter = "blur(10px)"
  /\ style.padding = "30px 20px"
  /\ style.gap = "25px"
  /\ style.borderTop = "1px solid rgba(255, 255, 255, 0.1)"

C8_MenuToggleAndLinkClose ==
  /\ [](Running => ENABLED MobileMenuBtnClick)
  /\ [][/\ MobileMenuBtnClick =>
             IF navLinksStyle.display = "flex"
               THEN navLinksStyle'.display = "none"
               ELSE FlexLayout(navLinksStyle')
        /\ \A l \in DOMAIN navLinksArray, w \in InnerWidths :
             NavLinkClick(l, w) =>
               IF w <= 768
                 THEN navLinksStyle'.display = "none"
                 ELSE navLinksStyle'.display = navLinksStyle.display]_vars

\* the panel was shown by the button and is hidden again
C8_Witness ==
  /\ navLinksStyle.display = "none"
  /\ navLinksStyle.flexDirection = "column"

(***************************************************************************)
(* C9.  Clicking an in-page anchor whose fragment resolves to an element   *)
(* requests a scroll to exactly that element's offsetTop minus 80;         *)
(* clicking an anchor whose fragment is empty or is exactly "#", or whose  *)
(* fragment resolves to no element, requests no scroll and changes no page *)
(* state.                                                                  *)
(***************************************************************************)
\* the sections carrying the id an href names after its '#'
Targets(href) ==
  {i \in DOMAIN sections :
     /\ Fragment(href) # <<>>
     /\ sections[i].id = Attr(Fragment(href))}

\* the scroll request a click on an anchor with this href must leave
RequestAfterClick(href) ==
  IF Targets(href) # {}
    THEN <<sections[Min(Targets(href))].offsetTop - 80>>
    ELSE scrollRequest

\* as claimed: a click that resolves to no element changes nothing at all
C9_Original ==
  [][/\ \A a \in DOMAIN anchorLinks :
          AnchorClick(a) =>
            /\ scrollRequest' = RequestAfterClick(anchorLinks[a])
            /\ Targets(anchorLinks[a]) = {} => UNCHANGED vars
     /\ \A l \in DOMAIN navLinksArray, w \in InnerWidths :
          NavLinkClick(l, w) /\ IsInPageAnchor(navLinksArray[l]) =>
            /\ scrollRequest' = RequestAfterClick(navLinksArray[l])
            /\ Targets(navLinksArray[l]) = {} => UNCHANGED vars]_vars

\* as amended: such a click on a nav link still hides the menu panel when the
\* viewport width is <= 768, and changes nothing else
C9_AnchorClickRequestsScroll ==
  [][/\ \A a \in DOMAIN anchorLinks :
          AnchorClick(a) =>
            /\ scrollRequest' = RequestAfterClick(anchorLinks[a])
            /\ Targets(anchorLinks[a]) = {} => UNCHANGED vars
     /\ \A l \in DOMAIN navLinksArray, w \in InnerWidths :
          NavLinkClick(l, w) /\ IsInPageAnchor(navLinksArray[l]) =>
            /\ scrollRequest' = RequestAfterClick(navLinksArray[l])
            /\ Targets(navLinksArray[l]) = {} =>
                 /\ UNCHANGED <<page, scrollVars, scrollRequest, modalVars, formVars>>
                 /\ navLinksStyle' =
                      IF w <= 768
                        THEN [navLinksStyle EXCEPT !.display = "none"]
                        ELSE navLinksStyle]_vars

\* a scroll to the second of two sections is requested, 80 above its top,
\* on a page that also has a nav link resolving to no element
C9_Witness ==
  /\ Len(sections) = 2
  /\ sections[2].id # sections[1].id
  /\ \E l \in DOMAIN navLinksArray :
       /\ navLinksArray[l] # NoAttr
       /\ Targets(navLinksArray[l]) = {2}
       /\ scrollRequest = <<sections[2].offsetTop - 80>>
  /\ \E l \in DOMAIN navLinksArray :
       IsInPageAnchor(navLinksArray[l]) /\ Targets(navLinksArray[l]) = {}

(***************************************************************************)
(* C10.  Each submit event puts exactly one POST in flight, which is never *)
(* retried or cancelled: it stays in flight until it completes, once, with *)
(* a notification.  While a submission is pending every other listener     *)
(* (scroll, menu button, anchor and nav-link click, card click, modal      *)
(* close, keydown) and a further submit can still run, unless an alert is  *)
(* being shown, and leaves the pending submissions alone; a pending        *)
(* submission's progress and completion change nothing of the other        *)
(* features.                                                               *)
(***************************************************************************)
Pending == inFlight # <<>>

OtherFeatures == <<page, scrollVars, scrollRequest, navLinksStyle, modalVars>>

FormProgress ==
  \/ \E k \in DOMAIN inFlight : FetchResolved(k)
  \/ \E k \in DOMAIN inFlight, error \in Thrown : Rejected(k, error)
  \/ \E k \in DOMAIN inFlight, success \in BOOLEAN : JsonResolved(k, success)
  \/ DismissAlert

Present(element) == element \notin absent

MissingDoesNothing ==
  /\ ~Present("header") => UNCHANGED headerScrolled
  /\ ~(Present("mobileMenuBtn") /\ Present("navLinks")) => UNCHANGED navLinksStyle
  /\ ~Present("modal") => UNCHANGED modalVars
  /\ ~Present("certificateImage") => UNCHANGED certificateImage
  /\ ~Present("certificateTitle") => UNCHANGED certificateTitle
  /\ ~Present("certificateIssuer") => UNCHANGED certificateIssuer
  /\ (~Present("modalClose") /\ ~Present("modalOverlay") /\ ~modalHidden /\ modalHidden')
       => KeyDown("Escape")
  /\ ~Present("contactForm") => UNCHANGED formVars

PresentActsAsUsual ==
  /\ Present("header") =>
       ((\E y \in ScrollOffsets : Scroll(y, Max(InnerHeights)))
          => (headerScrolled' <=> scrollY' > 100))
  /\ (Present("mobileMenuBtn") /\ Present("navLinks")) =>
       /\ MobileMenuBtnClick =>
            IF navLinksStyle.display = "flex"
              THEN navLinksStyle'.display = "none"
              ELSE FlexLayout(navLinksStyle')
       /\ \A l \in DOMAIN navLinksArray, w \in InnerWidths :
            NavLinkClick(l, w) =>
              IF w <= 768
                THEN navLinksStyle'.display = "none"
                ELSE navLinksStyle'.display = navLinksStyle.display
  /\ Present("modal") =>
       /\ \A index \in DOMAIN certificationCards :
            (CardClick(index) /\ index \in 0..6) =>
              /\ ~modalHidden'
              /\ bodyOverflow' = "hidden"
              /\ Present("certificateImage") =>
                   certificateImage' = [src |-> certificateMap[index].image,
                                        alt |-> certificateMap[index].title]
              /\ Present("certificateTitle") =>
                   certificateTitle' = certificateMap[index].title
              /\ Present("certificateIssuer") =>
                   certificateIssuer' = "Issued by " \o certificateMap[index].issuer
       /\ (ModalCloseClick \/ ModalOverlayClick) =>
            (modalHidden' /\ bodyOverflow' = "auto")
       /\ (KeyDown("Escape") /\ ~modalHidden) =>
            (modalHidden' /\ bodyOverflow' = "auto")
  /\ Present("contactForm") =>
       (Submit => inFlight' = Append(inFlight, "fetch"))

C11_MissingElementsTolerated ==
  /\ [](~uncaught)
  /\ [](Running =>
          /\ Present("mobileMenuBtn") => ENABLED MobileMenuBtnClick
          /\ Present("modalClose") => ENABLED ModalCloseClick
          /\ Present("modalOverlay") => ENABLED ModalOverlayClick
          /\ ENABLED KeyDown("Escape")
          /\ ENABLED CardClick(0))
  /\ [][MissingDoesNothing /\ PresentActsAsUsual]_vars

\* a page without header and image field: the scroll past 100 left no marker,
\* the card opened the modal and filled the title, the menu is shown
C11_Witness ==
  /\ absent = {"header", "certificateImage"}
  /\ scrollY = 101
  /\ ~headerScrolled
  /\ ~modalHidden
  /\ certificateTitle = certificateMap[0].title
  /\ certificateImage.src = ""
  /\ navLinksStyle.display = "flex"
  /\ inFlight # <<>>

(***************************************************************************)
(* C12.  While the modal is Closed (hidden marker present), a close-button *)
(* click, an overlay click and an Escape keydown each leave the modal's    *)
(* marker, its image, title and issuer fields and the body overflow        *)
(* setting as they were, and the only step that takes the modal out of     *)
(* Closed is the click of a card that has an entry in the table.           *)
(***************************************************************************)
CloseEvent == ModalCloseClick \/ ModalOverlayClick \/ KeyDown("Escape")

C12_ClosedIgnoresCloseEvents ==
  [][modalHidden =>
       /\ CloseEvent => UNCHANGED modalVars
       /\ ~modalHidden' =>
            \E index \in DOMAIN certificationCards :
              index \in 0..6 /\ CardClick(index)]_vars

(***************************************************************************)
(* C13.  In every reachable state, whatever card clicks (with or without   *)
(* a table entry), close-button clicks, overlay clicks, Escape presses,    *)
(* scrolls and form submissions came before, page scrolling is suspended   *)
(* (body overflow is 'hidden') if and only if the certificate modal is     *)
(* Open (its hidden marker is absent).                                     *)
(***************************************************************************)
C13_ScrollLockIffOpen == bodyOverflow = "hidden" <=> ~modalHidden

\* the modal reopened after a close, during a submission, on a scrolled page
C13_Witness ==
  /\ ~modalHidden
  /\ bodyOverflow = "hidden"
  /\ certificateTitle = certificateMap[6].title
  /\ scrollY = 101
  /\ Len(inFlight) = 2
  /\ navLinksStyle.display = "none"

(***************************************************************************)
(* C14.  When a nav link whose fragment is the id of section S has been    *)
(* clicked and the scroll it requested settles at offsetTop(S) - 80 and is *)
(* handled, the links marked active are the links to S and no others.  As  *)
(* claimed this holds for every layout of sections; it holds exactly when  *)
(* the last section in document order whose offsetTop is at most           *)
(* offsetTop(S) + 120 carries S's id, as it does when every section after  *)
(* S starts more than 120 below S's top.                                   *)
(***************************************************************************)
\* the section a click on nav link l scrolls to
Target(l) == Min(Targets(navLinksArray[l]))

\* the scroll a click on nav link l asks for settles, unclamped, and is handled
SettlesAtTargetOf(l) ==
  /\ IsInPageAnchor(navLinksArray[l])
  /\ Targets(navLinksArray[l]) # {}
  /\ scrollRequest = <<sections[Target(l)].offsetTop - 80>>
  /\ scrollRequest[1] >= 0
  /\ SmoothScrollSettle(Max(InnerHeights))

\* the links to the section nav link l names
SameFragment(l) == {k \in DOMAIN navLinksArray : LinkFragment(k) = LinkFragment(l)}

\* the sections that start at most 120 below the top of section s
StartsWithin120(s) ==
  {j \in DOMAIN sections : sections[j].offsetTop <= sections[s].offsetTop + 120}

\* as claimed: for every layout
C14_Original ==
  [][\A l \in DOMAIN navLinksArray :
       SettlesAtTargetOf(l) => activeLinks' = SameFragment(l)]_vars

C14_NavigationAgreesIffSpaced ==
  [][\A l \in DOMAIN navLinksArray :
       SettlesAtTargetOf(l) =>
         (activeLinks' = SameFragment(l)
            <=> sections[Max(StartsWithin120(Target(l)))].id = sections[Target(l)].id)]_vars

\* the scroll to the first of two sections has settled, the second starts 200
\* further down, and both links to the first are marked
C14_Witness ==
  /\ Len(sections) = 2
  /\ sections[1] = [id |-> Id("a"), offsetTop |-> 400]
  /\ sections[2] = [id |-> Id("b"), offsetTop |-> 600]
  /\ scrollY = 320
  /\ scrollRequest = <<>>
  /\ activeLinks = {1, 4}

====
